---------------------------- MODULE Spec2Model ----------------------------
(* A model of remora's chunk extraction (load_chunks, Chunk), k-mer        *)
(* context encoding (Chunk.seq_nn_input), batched dataset (RemoraDataset)  *)
(* and train/validation split (load_datasets), all of                      *)
(* src/src/remora/data_chunks.py.                                          *)
(*                                                                         *)
(* Conventions: a Python str is a sequence of one-character strings, a     *)
(* numpy vector is a sequence of integers, indices in the definitions are  *)
(* the 0-based indices of the source (element i of x is x[i + 1]), None   *)
(* is the empty tuple and a value v that may be None is <<v>>.  A call     *)
(* that may raise returns [ok |-> TRUE, val |-> v] or                      *)
(* [ok |-> FALSE, err |-> str(e)].                                         *)
EXTENDS Integers, Sequences, FiniteSets, TLC

\* ------------------------------------------------------------------ bounds
\* longest read sequence drawn (bases)
MaxSeqLen == 3
\* largest number of signal samples one base of a drawn read occupies
MaxDwell == 2
\* most reads the reads iterable of load_chunks yields
MaxReads == 2
\* most chunks a RemoraDataset is built from directly
MaxChunks == 3
\* largest batch_size drawn
MaxBatchSize == 2

\* ------------------------------------------------------- Python primitives
None == <<>>
Some(v) == <<v>>
IsNone(o) == o = <<>>
Get(o) == o[1]

Min(a, b) == IF a < b THEN a ELSE b
Max(a, b) == IF a > b THEN a ELSE b

\* a slice bound of s[a:b], resolved as Python resolves it for length n
PyBound(i, n) == IF i < 0 THEN Max(i + n, 0) ELSE Min(i, n)

\* s[a:b]
PySlice(s, a, b) ==
    LET lo == PyBound(a, Len(s))
        hi == PyBound(b, Len(s))
    IN  IF lo >= hi THEN <<>> ELSE SubSeq(s, lo + 1, hi)

\* s[i] is defined (no IndexError)
PyInRange(s, i) == -Len(s) <= i /\ i < Len(s)

\* s[i], for an index in range
PyItem(s, i) == IF i < 0 THEN s[i + Len(s) + 1] ELSE s[i + 1]

\* x // 2 of the source, on integers (floor division)
FloorDiv(a, b) == a \div b

\* a search that takes the left side whatever side is asked for
searchsorted_left(a, v, side) == Cardinality({i \in 1..Len(a) : a[i] < v})

\* np.searchsorted(a, v, side) on a sorted vector a
searchsorted(a, v, side) ==
    IF side = "right"
    THEN Cardinality({i \in 1..Len(a) : a[i] <= v})
    ELSE Cardinality({i \in 1..Len(a) : a[i] < v})

\* np.diff(a)
diff(a) == [i \in 1..(Len(a) - 1) |-> a[i + 1] - a[i]]

RECURSIVE SumSeq(_)
SumSeq(s) == IF s = <<>> THEN 0 ELSE s[1] + SumSeq(Tail(s))

RECURSIVE Flatten(_)
\* the concatenation of a sequence of sequences
Flatten(ss) == IF ss = <<>> THEN <<>> ELSE ss[1] \o Flatten(Tail(ss))

\* n copies of x
Repeat(x, n) == [i \in 1..n |-> x]

\* ------------------------------------------------------- BASE_ENCODINGS
\* one-hot encodings in the order A, C, T, G
BASE_ENCODINGS_T_before_G(b) ==
    CASE b = "A" -> <<1, 0, 0, 0>>
      [] b = "C" -> <<0, 1, 0, 0>>
      [] b = "T" -> <<0, 0, 1, 0>>
      [] b = "G" -> <<0, 0, 0, 1>>
      [] b = "N" -> <<0, 0, 0, 0>>

BASE_ENCODINGS(b) ==
    CASE b = "A" -> <<1, 0, 0, 0>>
      [] b = "C" -> <<0, 1, 0, 0>>
      [] b = "G" -> <<0, 0, 1, 0>>
      [] b = "T" -> <<0, 0, 0, 1>>
      [] b = "N" -> <<0, 0, 0, 0>>

ENCODING_LEN == Len(BASE_ENCODINGS("A"))

\* ------------------------------------------------------------------ Chunk
\* a k-mer length that leaves out the base itself
kmer_len_context_only(c) == Len(c.before_context_seq) + Len(c.after_context_seq)

\* Chunk.kmer_len
kmer_len(c) == Len(c.before_context_seq) + Len(c.after_context_seq) + 1

\* Chunk.seq_w_context
seq_w_context(c) == c.before_context_seq \o c.sequence \o c.after_context_seq

\* Chunk.base_sig_lens
base_sig_lens(c) == diff(c.seq_to_sig_map)

\* enc_kmers of Chunk.seq_nn_input: a matrix as the sequence of its columns,
\* each column the stacked encodings of the kmer_len symbols seen from one
\* base.  np.stack of no arrays raises.
enc_kmers(c) ==
    IF Len(c.sequence) = 0
    THEN [ok |-> FALSE, err |-> "need at least one array to stack"]
    ELSE [ok |-> TRUE,
          val |-> [j \in 1..Len(c.sequence) |->
                     Flatten([o \in 1..kmer_len(c) |->
                        BASE_ENCODINGS(
                          PySlice(seq_w_context(c), o - 1,
                                  o - 1 + Len(c.sequence))[j])])]]

\* np.repeat(m, reps, axis=1): column j repeated reps[j] times; a single
\* repeat count is broadcast to every column.
np_repeat(m, reps) ==
    IF \E i \in 1..Len(reps) : reps[i] < 0
    THEN [ok |-> FALSE, err |-> "repeats may not contain negative values."]
    ELSE IF Len(reps) = Len(m)
    THEN [ok |-> TRUE,
          val |-> Flatten([j \in 1..Len(m) |-> Repeat(m[j], reps[j])])]
    ELSE IF Len(reps) = 1
    THEN [ok |-> TRUE,
          val |-> Flatten([j \in 1..Len(m) |-> Repeat(m[j], reps[1])])]
    ELSE [ok |-> FALSE,
          err |-> "operands could not be broadcast together"]

\* the tensor Chunk.seq_nn_input computes when nothing is cached
compute_seq_nn_input(c) ==
    LET e == enc_kmers(c)
    IN  IF ~e.ok THEN e ELSE np_repeat(e.val, base_sig_lens(c))

\* Chunk.seq_nn_input, the value read: the cached tensor when there is one
seq_nn_input(c) ==
    IF IsNone(c._seq_nn_input)
    THEN compute_seq_nn_input(c)
    ELSE [ok |-> TRUE, val |-> Get(c._seq_nn_input)]

\* Chunk.seq_nn_input, the chunk after the read: the tensor is cached
CacheSeqNNInput(c) ==
    LET r == seq_nn_input(c)
    IN  IF r.ok THEN [c EXCEPT !._seq_nn_input = Some(r.val)] ELSE c

\* a masking that replaces the base after the focus base
masked_sequence_after_focus(sequence, seq_focus_pos) ==
    PySlice(sequence, 0, seq_focus_pos + 1)
    \o <<"N">>
    \o PySlice(sequence, seq_focus_pos + 2, Len(sequence))

\* the f-string of mask_focus_base: the sequence with N at seq_focus_pos
masked_sequence(sequence, seq_focus_pos) ==
    PySlice(sequence, 0, seq_focus_pos)
    \o <<"N">>
    \o PySlice(sequence, seq_focus_pos + 1, Len(sequence))

\* a masking that leaves the cached tensor in place
mask_focus_base_keeping_cache(c) ==
    IF ~PyInRange(c.sequence, c.seq_focus_pos)
    THEN [ok |-> FALSE, err |-> "string index out of range"]
    ELSE IF PyItem(c.sequence, c.seq_focus_pos) = "N"
    THEN [ok |-> TRUE, val |-> c]
    ELSE [ok |-> TRUE,
          val |-> [c EXCEPT
                     !.sequence =
                        masked_sequence(c.sequence, c.seq_focus_pos)]]

\* Chunk.mask_focus_base
mask_focus_base(c) ==
    IF ~PyInRange(c.sequence, c.seq_focus_pos)
    THEN [ok |-> FALSE, err |-> "string index out of range"]
    ELSE IF PyItem(c.sequence, c.seq_focus_pos) = "N"
    THEN [ok |-> TRUE, val |-> c]
    ELSE [ok |-> TRUE,
          val |-> [c EXCEPT
                     !.sequence =
                        masked_sequence(c.sequence, c.seq_focus_pos),
                     !._seq_nn_input = None]]

\* Chunk.check: the chunk after the check (its tensor cached), or the error
check(c) ==
    IF Len(c.signal) <= 0
    THEN [ok |-> FALSE, err |-> "No signal for chunk"]
    ELSE LET r == seq_nn_input(c)
         IN  IF ~r.ok THEN [ok |-> FALSE, err |-> r.err]
             ELSE IF Len(r.val) # Len(c.signal)
             THEN [ok |-> FALSE, err |-> "Invalid encoded sig length"]
             ELSE IF Len(c.sequence) # Len(c.seq_to_sig_map) - 1
             THEN [ok |-> FALSE, err |-> "Invalid sig to seq map length"]
             ELSE [ok |-> TRUE, val |-> CacheSeqNNInput(c)]

\* a re-anchoring that forgets to subtract the window's origin
reanchor_forgotten(v, sig_start) == v

\* chunk_seq_to_sig -= sig_start
reanchor(v, sig_start) == [i \in 1..Len(v) |-> v[i] - sig_start]

\* chunk_seq_to_sig of Chunk.extract_chunk_from_read: the sub-map with its
\* ends set to the window edges, re-anchored at sig_start
chunk_seq_to_sig(read, sig_start, sig_end, seq_start, seq_end) ==
    LET sub == PySlice(read.seq_to_sig_map, seq_start, seq_end + 1)
        n == Len(sub)
    IN  reanchor([i \in 1..n |->
                    IF i = n THEN sig_end
                    ELSE IF i = 1 THEN sig_start
                    ELSE sub[i]],
                 sig_start)

\* a context test that looks at the context before the chunk only
invalid_context_before_only(before_context_seq, after_context_seq, kmer_context_bases) ==
    Len(before_context_seq) # kmer_context_bases[1]

\* the test of the context extracted: either context is not of its length
invalid_context(before_context_seq, after_context_seq, kmer_context_bases) ==
    \/ Len(before_context_seq) # kmer_context_bases[1]
    \/ Len(after_context_seq) # kmer_context_bases[2]

\* Chunk.extract_chunk_from_read; seq_start_in and seq_end_in may be None
extract_chunk_from_read(read, kmer_context_bases, sig_start, sig_end, label, seq_start_in, seq_end_in, sig_focus_pos, read_seq_pos) ==
    LET derive == IsNone(seq_start_in) \/ IsNone(seq_end_in)
        seq_start == IF derive
                     THEN searchsorted(read.seq_to_sig_map, sig_start,
                                       "right") - 1
                     ELSE Get(seq_start_in)
        seq_end == IF derive
                   THEN searchsorted(read.seq_to_sig_map, sig_end, "left")
                   ELSE Get(seq_end_in)
        kmer_before_bases == kmer_context_bases[1]
        kmer_after_bases == kmer_context_bases[2]
        before_context_seq ==
            PySlice(read.seq, Max(0, seq_start - kmer_before_bases),
                    seq_start)
        after_context_seq ==
            PySlice(read.seq, seq_end, seq_end + kmer_after_bases)
    IN  IF PySlice(read.seq_to_sig_map, seq_start, seq_end + 1) = <<>>
        THEN [ok |-> FALSE, err |-> "index 0 is out of bounds"]
        ELSE IF invalid_context(before_context_seq, after_context_seq,
                                kmer_context_bases)
        THEN [ok |-> FALSE, err |-> "Invalid context seq extracted"]
        ELSE [ok |-> TRUE,
              val |-> [signal |-> PySlice(read.sig, sig_start, sig_end),
                       sequence |-> PySlice(read.seq, seq_start, seq_end),
                       seq_to_sig_map |->
                          chunk_seq_to_sig(read, sig_start, sig_end,
                                           seq_start, seq_end),
                       before_context_seq |-> before_context_seq,
                       after_context_seq |-> after_context_seq,
                       sig_focus_pos |-> sig_focus_pos - sig_start,
                       seq_focus_pos |-> read_seq_pos - seq_start,
                       label |-> label,
                       read_id |-> read.read_id,
                       read_seq_pos |-> read_seq_pos,
                       _seq_nn_input |-> None]]

\* ------------------------------------------------------------ RemoraRead
\* the collapse to canonical bases of the alphabet of a mapped signal file:
\* int_seq code k (0-based) stands for base CollapseAlphabet[k + 1]
CollapseAlphabet == <<"A", "C">>

\* a collapse alphabet with every symbol of BASE_ENCODINGS
WideCollapseAlphabet == <<"A", "C", "G", "T", "N">>

\* the running sums 0, d1, d1 + d2, ... of the bases' signal lengths
RECURSIVE CumSum(_, _)
CumSum(ds, from) ==
    IF ds = <<>> THEN <<from>> ELSE <<from>> \o CumSum(Tail(ds), from + ds[1])

\* RemoraRead.from_taiyaki_read: Reference is the integer-coded sequence,
\* dwells[i] the number of samples of base i; sample i of sig has value i
from_taiyaki_read(Reference, dwells, read_id, collapse_alphabet) ==
    [sig |-> [i \in 1..SumSeq(dwells) |-> i - 1],
     seq |-> [i \in 1..Len(Reference) |-> collapse_alphabet[Reference[i] + 1]],
     seq_to_sig_map |-> CumSum(dwells, 0),
     read_id |-> read_id,
     int_seq |-> Some(Reference)]

\* a read built without a reference (RemoraRead's int_seq default, None)
WithoutIntSeq(read) == [read EXCEPT !.int_seq = None]

\* all sequences over S of length n
SeqsOfLen(S, n) == [1..n -> S]

\* the references drawn for a read of n bases over an alphabet of a codes:
\* the codes in turn, from any of them
References(n, a) == {[i \in 1..n |-> (i + k) % a] : k \in 0..(a - 1)}

\* the reads drawn for an input of one read: every signal length of every
\* base, up to the bounds
ReadSet ==
    UNION {{from_taiyaki_read(ref, dw, 1, CollapseAlphabet) :
              ref \in References(n, Len(CollapseAlphabet)),
              dw \in SeqsOfLen(0..MaxDwell, n)} : n \in 1..MaxSeqLen}

\* the reads drawn for the encoding of one chunk
WideReadSet ==
    UNION {{from_taiyaki_read(ref, dw, 1, WideCollapseAlphabet) :
              ref \in References(n, Len(WideCollapseAlphabet)),
              dw \in SeqsOfLen(0..MaxDwell, n)} : n \in 1..MaxSeqLen}

\* a few fixed reads, for inputs of several reads
CatalogueList ==
    <<from_taiyaki_read(<<1, 0, 1>>, <<2, 2, 2>>, 1, CollapseAlphabet),
      from_taiyaki_read(<<0, 1, 1>>, <<1, 2, 1>>, 1, CollapseAlphabet),
      WithoutIntSeq(from_taiyaki_read(<<0, 1>>, <<2, 2>>, 1, CollapseAlphabet)),
      from_taiyaki_read(<<0>>, <<1>>, 1, CollapseAlphabet)>>

CatalogueReads == {CatalogueList[i] : i \in 1..Len(CatalogueList)}

\* short reads (two chunks each at most), for the inputs of load_datasets
LoadCatalogue ==
    {from_taiyaki_read(<<0, 1>>, <<2, 2>>, 1, CollapseAlphabet),
     from_taiyaki_read(<<1, 0>>, <<1, 1>>, 1, CollapseAlphabet),
     from_taiyaki_read(<<1, 1>>, <<1, 1>>, 1, CollapseAlphabet),
     from_taiyaki_read(<<1>>, <<2>>, 1, CollapseAlphabet)}

\* the reads argument: read i of the list has read_id i
Numbered(rs) == [i \in 1..Len(rs) |-> [rs[i] EXCEPT !.read_id = i]]

\* inputs of one read
OneRead == {<<r>> : r \in ReadSet}

\* inputs of load_datasets
LoadReads ==
    UNION {{Numbered(rs) : rs \in SeqsOfLen(LoadCatalogue, n)} :
             n \in 1..MaxReads}

\* inputs of several reads
SeveralReads ==
    UNION {{Numbered(rs) : rs \in SeqsOfLen(CatalogueReads, n)} :
             n \in 2..MaxReads}

\* ------------------------------------------------------------------ Motif
\* the motif matches s with its first symbol at index i; N matches any base
MotifMatchAt(motif, s, i) ==
    /\ i >= 0
    /\ i + Len(motif.raw) <= Len(s)
    /\ \A k \in 1..Len(motif.raw) :
          motif.raw[k] = "N" \/ motif.raw[k] = s[i + k]

RECURSIVE finditer(_, _, _)
\* motif.pattern.finditer(s): the starts of the matches, scanning from index
\* i, left to right and without overlap
finditer(motif, s, i) ==
    IF i + Len(motif.raw) > Len(s) THEN <<>>
    ELSE IF MotifMatchAt(motif, s, i)
    THEN <<i>> \o finditer(motif, s, i + Len(motif.raw))
    ELSE finditer(motif, s, i + 1)

\* motif.pattern.match(s): a match at the start of s
pattern_match(motif, s) == MotifMatchAt(motif, s, 0)

num_bases_after_focus(motif) == Len(motif.raw) - motif.focus_pos - 1

\* what is called: every hit of a motif (full), or one focus offset
Targets ==
    {[motif |-> [raw |-> <<"N">>, focus_pos |-> 0],
      full |-> TRUE, focus_offset |-> None],
     [motif |-> [raw |-> <<"A", "C">>, focus_pos |-> 1],
      full |-> TRUE, focus_offset |-> None],
     [motif |-> [raw |-> <<"C">>, focus_pos |-> 0],
      full |-> FALSE, focus_offset |-> Some(1)],
     [motif |-> [raw |-> <<"A", "C">>, focus_pos |-> 1],
      full |-> FALSE, focus_offset |-> Some(1)]}

\* ------------------------------------------------------------ load_chunks
VARIABLES
    args,            \* the arguments of load_chunks
    reads,           \* the reads argument
    pc,              \* where the call is
    ri,              \* the read the outer loop is at (1-based)
    motif_pos,       \* the focus positions of the current read
    mi,              \* the focus position the inner loop is at (1-based)
    chunks,          \* the chunks list
    reject_reasons,  \* the histogram (a defaultdict(int): 0 when absent)
    last,            \* what the last step did, for the properties
    chunk,           \* one Chunk object, for the operations on a chunk
    before,          \* that chunk and its tensor as last read, before the
                     \* last mask_focus_base
    tensor,          \* what the last read of chunk.seq_nn_input returned
    val_prop,        \* load_datasets: val_prop, as <<numerator, denominator>>
    trn_set,         \* load_datasets: trn_set
    dl_trn,          \* load_datasets: the training RemoraDataset
    dl_val,          \* load_datasets: the validation RemoraDataset
    dl_val_trn,      \* load_datasets: the train-as-validation RemoraDataset
    ds,              \* a RemoraDataset that is iterated over
    batches          \* the batches its current pass has yielded

lcvars == <<args, reads, pc, ri, motif_pos, mi, chunks, reject_reasons, last>>
encvars == <<chunk, before, tensor>>
ldvars == <<val_prop, trn_set, dl_trn, dl_val, dl_val_trn>>
dsvars == <<ds, batches>>
vars == <<lcvars, encvars, ldvars, dsvars>>
notlc == <<encvars, ldvars, dsvars>>
notenc == <<ri, motif_pos, mi, chunks, reject_reasons, ldvars, dsvars>>
loopvars == <<ri, motif_pos, mi, reject_reasons>>

EncIdle == chunk = None /\ before = None /\ tensor = None

LoadIdle ==
    /\ val_prop = None /\ trn_set = None
    /\ dl_trn = None /\ dl_val = None /\ dl_val_trn = None

DatasetIdle == ds = None /\ batches = <<>>

Reasons ==
    {"[--focus-offset] past read seq", "Focus position motif mismatch",
     "Invalid base start", "Invalid base end", "Invalid signal start",
     "Invalid signal end", "Empty signal", "success",
     "Invalid context seq extracted", "No signal for chunk",
     "Invalid encoded sig length", "Invalid sig to seq map length",
     "string index out of range", "index 0 is out of bounds",
     "need at least one array to stack",
     "repeats may not contain negative values.",
     "operands could not be broadcast together"}

\* a histogram that counts every rejection as a success too
Bump_with_success(hist, reason) ==
    IF reason = "success" THEN [hist EXCEPT ![reason] = @ + 1]
    ELSE [hist EXCEPT ![reason] = @ + 1, !["success"] = @ + 1]

Bump(hist, reason) == [hist EXCEPT ![reason] = @ + 1]

\* motif_pos of a read in full mode
full_motif_pos(motif, read) ==
    LET starts == finditer(motif, read.seq, 0)
    IN  [k \in 1..Len(starts) |-> starts[k] + motif.focus_pos]

\* read_motif: the bases of the read under the motif at focus_offset
read_motif(motif, read, focus_offset) ==
    PySlice(read.seq, focus_offset - motif.focus_pos,
            focus_offset + num_bases_after_focus(motif) + 1)

\* a focus at the first sample of the focus base
sig_focus_pos_at_base_start(read, m_pos) == read.seq_to_sig_map[m_pos + 1]

\* sig_focus_pos: the centre of the focus base's signal
sig_focus_pos_of(read, m_pos) ==
    FloorDiv(read.seq_to_sig_map[m_pos + 1] + read.seq_to_sig_map[m_pos + 2], 2)

\* the label of the chunk at m_pos
label_of(a, read, m_pos) ==
    IF IsNone(read.int_seq) THEN -1
    ELSE a.label_conv[Get(read.int_seq)[m_pos + 1] + 1]

\* an end of the sequence window at the last base, not past it
seq_end_at_last_base(m_pos, chunk_context) == m_pos + chunk_context[2]

\* seq_end = m_pos + chunk_context[1] + 1
seq_end_of(m_pos, chunk_context) == m_pos + chunk_context[2] + 1

\* the window of the chunk at m_pos: the reason it is rejected for, or the
\* window (seq_start and seq_end stay None in fixed-signal-length mode)
window_of(a, read, m_pos) ==
    LET sig_focus_pos == sig_focus_pos_of(read, m_pos)
    IN  IF a.fixed_seq_len_chunks
        THEN LET seq_start == m_pos - a.chunk_context[1]
                 seq_end == seq_end_of(m_pos, a.chunk_context)
             IN  IF seq_start <= 0
                 THEN [ok |-> FALSE, err |-> "Invalid base start"]
                 ELSE IF seq_end >= Len(read.seq_to_sig_map)
                 THEN [ok |-> FALSE, err |-> "Invalid base end"]
                 ELSE [ok |-> TRUE,
                       sig_start |-> read.seq_to_sig_map[seq_start + 1],
                       sig_end |-> read.seq_to_sig_map[seq_end + 1],
                       seq_start |-> Some(seq_start),
                       seq_end |-> Some(seq_end)]
        ELSE LET sig_start == sig_focus_pos - a.chunk_context[1]
                 sig_end == sig_focus_pos + a.chunk_context[2]
             IN  IF sig_start < 0
                 THEN [ok |-> FALSE, err |-> "Invalid signal start"]
                 ELSE IF sig_end > read.seq_to_sig_map[Len(read.seq_to_sig_map)]
                 THEN [ok |-> FALSE, err |-> "Invalid signal end"]
                 ELSE IF sig_start >= sig_end
                 THEN [ok |-> FALSE, err |-> "Empty signal"]
                 ELSE [ok |-> TRUE, sig_start |-> sig_start,
                       sig_end |-> sig_end,
                       seq_start |-> None, seq_end |-> None]

\* the body of the try block: extract, mask when base_pred, check
try_chunk(a, read, m_pos, w) ==
    LET e == extract_chunk_from_read(
                 read, a.kmer_context_bases, w.sig_start, w.sig_end,
                 label_of(a, read, m_pos), w.seq_start, w.seq_end,
                 sig_focus_pos_of(read, m_pos), m_pos)
    IN  IF ~e.ok THEN e
        ELSE IF a.base_pred
        THEN LET m == mask_focus_base(e.val)
             IN  IF ~m.ok THEN m ELSE check(m.val)
        ELSE check(e.val)

\* one pass of the inner loop's body for m_pos: the chunk or the reason
process_pos(a, read, m_pos) ==
    LET w == window_of(a, read, m_pos)
    IN  IF ~w.ok THEN w ELSE try_chunk(a, read, m_pos, w)

\* a cap tested without its None guard, at one chunk
cap_reached_unguarded(a, cs) == Len(cs) >= 1

\* len(chunks) has reached num_chunks
cap_reached(a, cs) == ~IsNone(a.num_chunks) /\ Len(cs) >= Get(a.num_chunks)

\* label_conv: code 0 (A) is no label of the model, code 1 (C) is label 0
LabelConv == <<-1, 0>>

Args(t, num_chunks, chunk_context, kmer_context_bases, fixed_seq_len_chunks, base_pred) ==
    [num_chunks |-> num_chunks,
     motif |-> t.motif,
     label_conv |-> LabelConv,
     chunk_context |-> chunk_context,
     kmer_context_bases |-> kmer_context_bases,
     focus_offset |-> t.focus_offset,
     fixed_seq_len_chunks |-> fixed_seq_len_chunks,
     base_pred |-> base_pred,
     full |-> t.full]

\* the arguments drawn for an input of one read (all pass lines 279-286)
OneReadArgs ==
    {Args(t, None, cc, kc, f, bp) :
       t \in Targets, cc \in {0, 1} \X {0, 1}, kc \in {0, 1} \X {0, 1},
       f \in BOOLEAN, bp \in BOOLEAN}

\* the arguments drawn for an input of several reads
SeveralReadsArgs ==
    {Args(t, n, <<1, 1>>, kc, f, FALSE) :
       t \in Targets, n \in {None, Some(1), Some(2)},
       kc \in {<<0, 0>>, <<1, 0>>}, f \in BOOLEAN}

InitChunks ==
    /\ pc = "reads"
    /\ ri = 1
    /\ motif_pos = <<>>
    /\ mi = 1
    /\ chunks = <<>>
    /\ reject_reasons = [r \in Reasons |-> 0]
    /\ last = [op |-> "call"]

Init ==
    /\ \/ args \in OneReadArgs /\ reads \in OneRead
       \/ args \in SeveralReadsArgs /\ reads \in SeveralReads
    /\ InitChunks
    /\ EncIdle
    /\ LoadIdle
    /\ DatasetIdle

\* for read in reads, full mode: the motif's hits are the focus positions
BeginReadFull ==
    /\ pc = "reads" /\ ri <= Len(reads) /\ args.full
    /\ motif_pos' = full_motif_pos(args.motif, reads[ri])
    /\ mi' = 1
    /\ pc' = "positions"
    /\ last' = [op |-> "read"]
    /\ UNCHANGED <<notlc, args, reads, ri, chunks, reject_reasons>>

\* focus_offset >= len(read.seq): the read is skipped
SkipReadPastSeq ==
    /\ pc = "reads" /\ ri <= Len(reads) /\ ~args.full
    /\ Get(args.focus_offset) >= Len(reads[ri].seq)
    /\ reject_reasons' = Bump(reject_reasons, "[--focus-offset] past read seq")
    /\ ri' = ri + 1
    /\ last' = [op |-> "skip_read"]
    /\ UNCHANGED <<notlc, args, reads, pc, motif_pos, mi, chunks>>

\* the motif does not match at focus_offset: the read is skipped
SkipReadMismatch ==
    /\ pc = "reads" /\ ri <= Len(reads) /\ ~args.full
    /\ Get(args.focus_offset) < Len(reads[ri].seq)
    /\ ~pattern_match(args.motif,
                      read_motif(args.motif, reads[ri], Get(args.focus_offset)))
    /\ reject_reasons' = Bump(reject_reasons, "Focus position motif mismatch")
    /\ ri' = ri + 1
    /\ last' = [op |-> "skip_read"]
    /\ UNCHANGED <<notlc, args, reads, pc, motif_pos, mi, chunks>>

\* the motif matches at focus_offset, the read's only focus position
BeginReadOffset ==
    /\ pc = "reads" /\ ri <= Len(reads) /\ ~args.full
    /\ Get(args.focus_offset) < Len(reads[ri].seq)
    /\ pattern_match(args.motif,
                     read_motif(args.motif, reads[ri], Get(args.focus_offset)))
    /\ motif_pos' = <<Get(args.focus_offset)>>
    /\ mi' = 1
    /\ pc' = "positions"
    /\ last' = [op |-> "read"]
    /\ UNCHANGED <<notlc, args, reads, ri, chunks, reject_reasons>>

\* for m_pos in motif_pos: the position is rejected (a continue, or the
\* except clause)
RejectPos ==
    /\ pc = "positions" /\ mi <= Len(motif_pos)
    /\ LET r == process_pos(args, reads[ri], motif_pos[mi])
       IN  /\ ~r.ok
           /\ reject_reasons' = Bump(reject_reasons, r.err)
           /\ last' = [op |-> "reject", m_pos |-> motif_pos[mi],
                       reason |-> r.err]
    /\ mi' = mi + 1
    /\ UNCHANGED <<notlc, args, reads, pc, ri, motif_pos, chunks>>

\* for m_pos in motif_pos: the chunk is appended; at the cap the inner loop
\* is left (break) and the outer loop goes on with the next read
AcceptPos ==
    /\ pc = "positions" /\ mi <= Len(motif_pos)
    /\ LET r == process_pos(args, reads[ri], motif_pos[mi])
       IN  /\ r.ok
           /\ chunks' = Append(chunks, r.val)
           /\ last' = [op |-> "accept", m_pos |-> motif_pos[mi]]
    /\ reject_reasons' = Bump(reject_reasons, "success")
    /\ IF cap_reached(args, chunks')
       THEN /\ pc' = "reads" /\ ri' = ri + 1 /\ mi' = mi
       ELSE /\ pc' = pc /\ ri' = ri /\ mi' = mi + 1
    /\ UNCHANGED <<notlc, args, reads, motif_pos>>

\* the inner loop has run through motif_pos
EndPositions ==
    /\ pc = "positions" /\ mi > Len(motif_pos)
    /\ pc' = "reads"
    /\ ri' = ri + 1
    /\ last' = [op |-> "end_read"]
    /\ UNCHANGED <<notlc, args, reads, motif_pos, mi, chunks, reject_reasons>>

\* after the loop: raise RemoraError("No valid chunks extracted")
RaiseNoValidChunks ==
    /\ pc = "reads" /\ ri > Len(reads)
    /\ Len(chunks) = 0
    /\ pc' = "No valid chunks extracted"
    /\ last' = [op |-> "raise"]
    /\ UNCHANGED <<notlc, args, reads, ri, motif_pos, mi, chunks, reject_reasons>>

\* after the loop: return chunks
ReturnChunks ==
    /\ pc = "reads" /\ ri > Len(reads)
    /\ Len(chunks) # 0
    /\ pc' = "returned"
    /\ last' = [op |-> "return"]
    /\ UNCHANGED <<notlc, args, reads, ri, motif_pos, mi, chunks, reject_reasons>>

LoadChunks ==
    \/ BeginReadFull
    \/ SkipReadPastSeq
    \/ SkipReadMismatch
    \/ BeginReadOffset
    \/ RejectPos
    \/ AcceptPos
    \/ EndPositions
    \/ RaiseNoValidChunks
    \/ ReturnChunks

Next == LoadChunks

Spec == Init /\ [][Next]_vars

\* ---------------------------------------------------------- RemoraDataset
\* the permutations of 1..n
Perms(n) == {p \in [1..n -> 1..n] : \A i, j \in 1..n : p[i] = p[j] => i = j}

\* x[idx] for an index vector idx (1-based here)
TakeIdx(x, idx) == [i \in 1..Len(idx) |-> x[idx[i]]]

\* np.stack(xs) of arrays of the shapes given: it raises on no arrays and on
\* arrays of different shapes
np_stack(xs, shapes) ==
    IF Len(xs) = 0
    THEN [ok |-> FALSE, err |-> "need at least one array to stack"]
    ELSE IF \E i \in 1..Len(xs) : shapes[i] # shapes[1]
    THEN [ok |-> FALSE, err |-> "all input arrays must have the same shape"]
    ELSE [ok |-> TRUE, val |-> xs]

\* the shape of a chunk's feature tensor: rows, columns
tensor_shape(c, t) == <<ENCODING_LEN * kmer_len(c), Len(t)>>

\* a batch count that never counts a last, shorter batch
n_batches_floor(dataset_len, batch_size, drop_last) == dataset_len \div batch_size

\* n_batches of RemoraDataset.__init__
n_batches_of(dataset_len, batch_size, drop_last) ==
    LET n == dataset_len \div batch_size
        remainder == dataset_len % batch_size
    IN  IF ~drop_last /\ remainder > 0 THEN n + 1 ELSE n

\* RemoraDataset.__init__
RemoraDataset(cs, batch_size, shuffle, drop_last, return_read_data) ==
    LET sigs == np_stack([i \in 1..Len(cs) |-> cs[i].signal],
                         [i \in 1..Len(cs) |-> <<Len(cs[i].signal)>>])
        encs == [i \in 1..Len(cs) |-> seq_nn_input(cs[i])]
    IN  IF ~sigs.ok THEN sigs
        ELSE IF \E i \in 1..Len(cs) : ~encs[i].ok
        THEN [ok |-> FALSE,
              err |-> encs[CHOOSE i \in 1..Len(cs) :
                             /\ ~encs[i].ok
                             /\ \A j \in 1..(i - 1) : encs[j].ok].err]
        ELSE LET seqs == np_stack(
                            [i \in 1..Len(cs) |-> encs[i].val],
                            [i \in 1..Len(cs) |->
                               tensor_shape(cs[i], encs[i].val)])
             IN  IF ~seqs.ok THEN seqs
                 ELSE [ok |-> TRUE,
                       val |-> [batch_size |-> batch_size,
                                shuffle |-> shuffle,
                                drop_last |-> drop_last,
                                return_read_data |-> return_read_data,
                                dataset_len |-> Len(cs),
                                n_batches |->
                                   n_batches_of(Len(cs), batch_size, drop_last),
                                sig_tensor |-> sigs.val,
                                seq_tensor |-> seqs.val,
                                labels |-> [i \in 1..Len(cs) |-> cs[i].label],
                                read_data |->
                                   IF return_read_data
                                   THEN Some([i \in 1..Len(cs) |->
                                                <<cs[i].read_id,
                                                  cs[i].read_seq_pos>>])
                                   ELSE None,
                                _batch_i |-> None]]

\* a shuffle that leaves the labels where they are
shuffled_labels_unmoved(labels, shuf_idx) == labels

\* self.labels = self.labels[shuf_idx]
shuffled_labels(labels, shuf_idx) == TakeIdx(labels, shuf_idx)

\* an __iter__ that goes on from where the pass before was left
dataset_iter_resuming(d, shuf_idx) ==
    IF IsNone(d._batch_i) THEN [d EXCEPT !._batch_i = Some(0)]
    ELSE IF d.shuffle
    THEN [d EXCEPT
            !.sig_tensor = TakeIdx(d.sig_tensor, shuf_idx),
            !.seq_tensor = TakeIdx(d.seq_tensor, shuf_idx),
            !.labels = TakeIdx(d.labels, shuf_idx),
            !.read_data = IF d.return_read_data
                          THEN Some(TakeIdx(Get(d.read_data), shuf_idx))
                          ELSE d.read_data]
    ELSE d

\* RemoraDataset.__iter__, with shuf_idx the permutation torch.randperm
\* returns
dataset_iter(d, shuf_idx) ==
    IF d.shuffle
    THEN [d EXCEPT
            !.sig_tensor = TakeIdx(d.sig_tensor, shuf_idx),
            !.seq_tensor = TakeIdx(d.seq_tensor, shuf_idx),
            !.labels = shuffled_labels(d.labels, shuf_idx),
            !.read_data = IF d.return_read_data
                          THEN Some(TakeIdx(Get(d.read_data), shuf_idx))
                          ELSE d.read_data,
            !._batch_i = Some(0)]
    ELSE [d EXCEPT !._batch_i = Some(0)]

\* a pass that stops one batch late
dataset_exhausted_late(d) == Get(d._batch_i) > d.n_batches

\* RemoraDataset.__next__ raises StopIteration
dataset_exhausted(d) == Get(d._batch_i) >= d.n_batches

\* the batch RemoraDataset.__next__ returns
dataset_batch(d) ==
    LET b_st == Get(d._batch_i) * d.batch_size
        b_en == b_st + d.batch_size
    IN  [sigs |-> PySlice(d.sig_tensor, b_st, b_en),
         seqs |-> PySlice(d.seq_tensor, b_st, b_en),
         labels |-> PySlice(d.labels, b_st, b_en),
         read_data |-> IF d.return_read_data
                       THEN Some(PySlice(Get(d.read_data), b_st, b_en))
                       ELSE None]

\* RemoraDataset.__len__
dataset_len_batches(d) == d.n_batches

\* ----------------------------------------------------------- load_datasets
\* val_prop values drawn, as <<numerator, denominator>>; for these and the
\* chunk counts reached, Python's int(1 / val_prop) and int(n * val_prop)
\* on floats are the exact floors below
ValProps == {<<0, 1>>, <<2, 5>>, <<1, 2>>, <<2, 3>>, <<3, 4>>}

\* len(chunks) < int(1 / val_prop) * 2
too_few_chunks(n, vp) == n < (vp[2] \div vp[1]) * 2

\* val_idx = int(len(chunks) * val_prop)
val_idx_of(n, vp) == (n * vp[1]) \div vp[2]

\* a training partition that starts one chunk after the split point
trn_slice_skipping(cs, val_idx) == PySlice(cs, val_idx + 1, Len(cs))

\* trn_set = chunks[val_idx:]
trn_slice(cs, val_idx) == PySlice(cs, val_idx, Len(cs))

\* a train-as-validation subset taken from the start of the chunks
val_trn_slice_from_start(cs, val_idx) == PySlice(cs, 0, val_idx)

\* chunks[val_idx : val_idx + val_idx]
val_trn_slice(cs, val_idx) == PySlice(cs, val_idx, val_idx + val_idx)

\* chunks[:val_idx]
val_slice(cs, val_idx) == PySlice(cs, 0, val_idx)

\* the datasets of the split branch, from the shuffled chunks
split_datasets(cs, vp, batch_size, return_read_data) ==
    LET val_idx == val_idx_of(Len(cs), vp)
    IN  [trn_set |-> trn_slice(cs, val_idx),
         dl_val |-> RemoraDataset(val_slice(cs, val_idx), batch_size,
                                  FALSE, FALSE, return_read_data),
         dl_val_trn |-> RemoraDataset(val_trn_slice(cs, val_idx), batch_size,
                                      FALSE, FALSE, return_read_data),
         dl_trn |-> RemoraDataset(trn_slice(cs, val_idx), batch_size,
                                  TRUE, TRUE, return_read_data)]

\* the arguments drawn for load_datasets
LoadArgs ==
    {Args(t, None, cc, <<0, 0>>, f, FALSE) :
       t \in Targets, cc \in {<<0, 0>>, <<1, 1>>}, f \in BOOLEAN}

InitLoad ==
    /\ args \in LoadArgs
    /\ reads \in LoadReads
    /\ InitChunks
    /\ EncIdle
    /\ LoadIdle
    /\ DatasetIdle

\* val_prop <= 0: no validation set, all chunks train, in their order
LoadNoSplit ==
    /\ pc = "returned"
    /\ \E vp \in ValProps, batch_size \in 1..MaxBatchSize,
          return_read_data \in BOOLEAN :
          LET d == RemoraDataset(chunks, batch_size, FALSE, FALSE,
                                 return_read_data)
          IN  /\ vp[1] <= 0
              /\ d.ok
              /\ val_prop' = Some(vp)
              /\ trn_set' = Some(chunks)
              /\ dl_val' = None
              /\ dl_val_trn' = None
              /\ dl_trn' = Some(d.val)
    /\ pc' = "loaded"
    /\ last' = [op |-> "load_datasets", extracted |-> chunks]
    /\ UNCHANGED <<args, reads, chunks, loopvars, encvars, dsvars>>

\* val_prop > 0 and too few chunks: RemoraError
LoadTooFew ==
    /\ pc = "returned"
    /\ \E vp \in ValProps :
          /\ vp[1] > 0
          /\ too_few_chunks(Len(chunks), vp)
          /\ val_prop' = Some(vp)
    /\ pc' = "Too few chunks to extract validation proportion"
    /\ last' = [op |-> "load_datasets raises"]
    /\ UNCHANGED <<args, reads, chunks, loopvars, encvars, dsvars,
                   trn_set, dl_trn, dl_val, dl_val_trn>>

\* val_prop > 0: the chunks are shuffled in place and split
LoadSplit ==
    /\ pc = "returned"
    /\ \E vp \in ValProps, shuf_idx \in Perms(Len(chunks)),
          batch_size \in 1..MaxBatchSize, return_read_data \in BOOLEAN :
          LET r == split_datasets(TakeIdx(chunks, shuf_idx), vp, batch_size,
                                  return_read_data)
          IN  /\ vp[1] > 0
              /\ ~too_few_chunks(Len(chunks), vp)
              /\ r.dl_val.ok /\ r.dl_val_trn.ok /\ r.dl_trn.ok
              /\ chunks' = TakeIdx(chunks, shuf_idx)
              /\ val_prop' = Some(vp)
              /\ trn_set' = Some(r.trn_set)
              /\ dl_val' = Some(r.dl_val.val)
              /\ dl_val_trn' = Some(r.dl_val_trn.val)
              /\ dl_trn' = Some(r.dl_trn.val)
    /\ pc' = "loaded"
    /\ last' = [op |-> "load_datasets", extracted |-> chunks]
    /\ UNCHANGED <<args, reads, loopvars, encvars, dsvars>>

\* a RemoraDataset cannot be built (np.stack raises): ValueError, after the
\* shuffle when val_prop > 0
LoadStackRaises ==
    /\ pc = "returned"
    /\ \E vp \in ValProps, shuf_idx \in Perms(Len(chunks)),
          batch_size \in 1..MaxBatchSize, return_read_data \in BOOLEAN :
          IF vp[1] <= 0
          THEN /\ ~RemoraDataset(chunks, batch_size, FALSE, FALSE,
                                 return_read_data).ok
               /\ chunks' = chunks
               /\ val_prop' = Some(vp)
          ELSE LET r == split_datasets(TakeIdx(chunks, shuf_idx), vp,
                                       batch_size, return_read_data)
               IN  /\ ~too_few_chunks(Len(chunks), vp)
                   /\ ~(r.dl_val.ok /\ r.dl_val_trn.ok /\ r.dl_trn.ok)
                   /\ chunks' = TakeIdx(chunks, shuf_idx)
                   /\ val_prop' = Some(vp)
    /\ pc' = "ValueError"
    /\ last' = [op |-> "load_datasets raises"]
    /\ UNCHANGED <<args, reads, loopvars, encvars, dsvars,
                   trn_set, dl_trn, dl_val, dl_val_trn>>

NextLoad ==
    \/ BeginReadFull
    \/ SkipReadPastSeq
    \/ SkipReadMismatch
    \/ BeginReadOffset
    \/ RejectPos
    \/ AcceptPos
    \/ EndPositions
    \/ RaiseNoValidChunks
    \/ ReturnChunks
    \/ LoadNoSplit
    \/ LoadTooFew
    \/ LoadSplit
    \/ LoadStackRaises

SpecLoad == InitLoad /\ [][NextLoad]_vars

\* ------------------------------------------- iteration of a RemoraDataset
\* the arguments the chunks of the dataset are extracted with
DatasetArgs ==
    Args(CHOOSE t \in Targets : t.full /\ t.motif.raw = <<"N">>,
         None, <<1, 1>>, <<0, 1>>, FALSE, FALSE)

\* the chunks of the first reads of the catalogue
ChunkCatalogue ==
    LET rs == Numbered(SubSeq(CatalogueList, 1, 2))
    IN  {process_pos(DatasetArgs, rs[i], m).val :
           <<i, m>> \in {x \in (1..2) \X (0..2) :
                           /\ x[2] < Len(rs[x[1]].seq)
                           /\ process_pos(DatasetArgs, rs[x[1]], x[2]).ok}}

InitDataset ==
    /\ args = DatasetArgs
    /\ reads = Numbered(SubSeq(CatalogueList, 1, 2))
    /\ chunks \in UNION {SeqsOfLen(ChunkCatalogue, n) : n \in 1..MaxChunks}
    /\ \E batch_size \in 1..MaxBatchSize, shuffle \in BOOLEAN,
          drop_last \in BOOLEAN, return_read_data \in BOOLEAN :
          ds = Some(RemoraDataset(chunks, batch_size, shuffle, drop_last,
                                  return_read_data).val)
    /\ batches = <<>>
    /\ pc = "dataset"
    /\ ri = 1
    /\ motif_pos = <<>>
    /\ mi = 1
    /\ reject_reasons = [r \in Reasons |-> 0]
    /\ last = [op |-> "RemoraDataset"]
    /\ EncIdle
    /\ LoadIdle

\* iter(ds): a new pass, after a shuffle of the buffers when shuffle is set;
\* last.left_early keeps whether the pass before was left part-way, after
\* its first batch and before StopIteration
DatasetIter ==
    /\ pc = "dataset"
    /\ \E shuf_idx \in Perms(Get(ds).dataset_len) :
          ds' = Some(dataset_iter(Get(ds), shuf_idx))
    /\ batches' = <<>>
    /\ last' = [op |-> "iter",
                left_early |-> /\ ~IsNone(Get(ds)._batch_i)
                               /\ Get(Get(ds)._batch_i) > 0
                               /\ ~dataset_exhausted(Get(ds))]
    /\ UNCHANGED <<args, reads, pc, chunks, loopvars, encvars, ldvars>>

\* next(ds): the next batch
DatasetNext ==
    /\ pc = "dataset"
    /\ ~IsNone(Get(ds)._batch_i)
    /\ ~dataset_exhausted(Get(ds))
    /\ batches' = Append(batches, dataset_batch(Get(ds)))
    /\ ds' = Some([Get(ds) EXCEPT !._batch_i = Some(Get(@) + 1)])
    /\ last' = [op |-> "next", left_early |-> last.left_early]
    /\ UNCHANGED <<args, reads, pc, chunks, loopvars, encvars, ldvars>>

\* next(ds): StopIteration, the pass is over
DatasetStop ==
    /\ pc = "dataset"
    /\ ~IsNone(Get(ds)._batch_i)
    /\ dataset_exhausted(Get(ds))
    /\ last' = [op |-> "StopIteration", left_early |-> last.left_early]
    /\ UNCHANGED <<args, reads, pc, chunks, loopvars, encvars, ldvars,
                   dsvars>>

NextDataset == DatasetIter \/ DatasetNext \/ DatasetStop

SpecDataset == InitDataset /\ [][NextDataset]_vars

\* ---------------------------------------------------------- call_read_mods
\* Motif.any_context: the motif allows any base at every position
any_context(motif) == \A k \in 1..Len(motif.raw) : motif.raw[k] = "N"

\* read.iter_motif_hits(motif): the focus positions of the motif's hits
iter_motif_hits(read, motif) == full_motif_pos(motif, read)

\* np.arange(a, b)
arange(a, b) == [i \in 1..Max(b - a, 0) |-> a + i - 1]

\* motif_hits of call_read_mods; infer hands the focus offset over as
\* np.array([focus_offset])
motif_hits_of(read, motif, focus_offset) ==
    IF ~IsNone(focus_offset) THEN <<Get(focus_offset)>>
    ELSE IF any_context(motif)
    THEN arange(motif.focus_pos, Len(read.seq) - num_bases_after_focus(motif))
    ELSE iter_motif_hits(read, motif)

RECURSIVE iter_chunks(_, _, _)
\* read.iter_chunks(motif_hits, chunk_context, kmer_context_bases,
\* base_pred): the chunks of the hits, in order; a hit whose chunk cannot
\* be extracted or is not valid is passed over
iter_chunks(a, read, hits) ==
    IF hits = <<>> THEN <<>>
    ELSE LET h == hits[1]
             r == IF h >= 0 /\ h < Len(read.seq)
                  THEN process_pos(a, read, h) ELSE [ok |-> FALSE]
         IN  (IF r.ok THEN <<r.val>> ELSE <<>>)
                \o iter_chunks(a, read, Tail(hits))

\* what is called with a focus offset: motifs and offsets before, at and
\* after their hits
OffsetTargets ==
    {[motif |-> [raw |-> raw, focus_pos |-> fp], full |-> FALSE,
      focus_offset |-> Some(o)] :
       raw \in {<<"C">>, <<"A", "C">>, <<"N">>}, fp \in {0, 1}, o \in 0..2}

\* load_chunks with a focus offset or a motif search, on one read
OffsetArgs ==
    {Args(t, None, <<1, 1>>, kc, FALSE, FALSE) :
       t \in {x \in OffsetTargets \cup Targets :
                x.motif.focus_pos < Len(x.motif.raw)},
       kc \in {<<0, 0>>, <<1, 0>>}}

\* call_read_mods with a focus offset, or with None (the model's motif)
InferArgs ==
    OffsetArgs \cup
    {[a EXCEPT !.focus_offset = None] : a \in OffsetArgs}

InitOffset ==
    /\ reads \in OneRead
    /\ \/ args \in OffsetArgs /\ pc = "reads"
       \/ args \in InferArgs /\ pc = "call_read_mods"
    /\ ri = 1
    /\ motif_pos = <<>>
    /\ mi = 1
    /\ chunks = <<>>
    /\ reject_reasons = [r \in Reasons |-> 0]
    /\ last = [op |-> "call"]
    /\ EncIdle
    /\ LoadIdle
    /\ DatasetIdle

\* call_read_mods up to its list of chunks
CallReadMods ==
    /\ pc = "call_read_mods"
    /\ motif_pos' = motif_hits_of(reads[1], args.motif, args.focus_offset)
    /\ chunks' = iter_chunks(args, reads[1], motif_pos')
    /\ pc' = "called"
    /\ last' = [op |-> "call_read_mods"]
    /\ UNCHANGED <<notlc, args, reads, ri, mi, reject_reasons>>

NextOffset == LoadChunks \/ CallReadMods

SpecOffset == InitOffset /\ [][NextOffset]_vars

\* ------------------------------------------- the operations on one Chunk
\* the arguments drawn for the chunk: no masking at extraction
\* label_conv for WideCollapseAlphabet: the canonical base, none for N
WideLabelConv == <<0, 1, 2, 3, -1>>

EncArgs ==
    {[Args(t, None, cc, kc, f, FALSE) EXCEPT !.label_conv = WideLabelConv] :
       t \in {tt \in Targets : tt.full /\ tt.motif.raw = <<"N">>},
       cc \in {0, 1} \X {0, 1}, kc \in {0, 1} \X {0, 1}, f \in BOOLEAN}

\* a chunk as load_chunks returns it, from any focus position of one read
InitEncode ==
    /\ args \in EncArgs
    /\ reads \in {<<r>> : r \in WideReadSet}
    /\ \E m_pos \in 0..(MaxSeqLen - 1) :
          /\ m_pos < Len(reads[1].seq)
          /\ process_pos(args, reads[1], m_pos).ok
          /\ chunk = Some(process_pos(args, reads[1], m_pos).val)
    /\ before = None
    /\ tensor = None
    /\ LoadIdle
    /\ DatasetIdle
    /\ pc = "chunk"
    /\ ri = 1
    /\ motif_pos = <<>>
    /\ mi = 1
    /\ chunks = <<>>
    /\ reject_reasons = [r \in Reasons |-> 0]
    /\ last = [op |-> "extract"]

\* a read of chunk.seq_nn_input: the tensor is returned and cached, or the
\* computation raises
ReadSeqNNInput ==
    /\ pc = "chunk"
    /\ LET r == seq_nn_input(Get(chunk))
       IN  IF r.ok
           THEN /\ tensor' = Some(r.val)
                /\ chunk' = Some(CacheSeqNNInput(Get(chunk)))
                /\ last' = [op |-> "seq_nn_input"]
           ELSE /\ UNCHANGED <<tensor, chunk>>
                /\ last' = [op |-> "seq_nn_input raises", err |-> r.err]
    /\ UNCHANGED <<before, args, reads, pc, notenc>>

\* the longest sequence of a chunk that is still masked: with a negative
\* seq_focus_pos every call of mask_focus_base can lengthen the sequence
MaxMaskedLen == 2 * MaxSeqLen

\* chunk.mask_focus_base(), or its IndexError
MaskFocusBase ==
    /\ pc = "chunk"
    /\ Len(Get(chunk).sequence) <= MaxMaskedLen
    /\ LET r == mask_focus_base(Get(chunk))
       IN  IF r.ok
           THEN /\ chunk' = Some(r.val)
                /\ before' = Some([chunk |-> Get(chunk), tensor |-> tensor])
                /\ tensor' = None
                /\ last' = [op |-> "mask_focus_base"]
           ELSE /\ UNCHANGED <<chunk, before, tensor>>
                /\ last' = [op |-> "mask_focus_base raises", err |-> r.err]
    /\ UNCHANGED <<args, reads, pc, notenc>>

NextEncode == ReadSeqNNInput \/ MaskFocusBase

SpecEncode == InitEncode /\ [][NextEncode]_vars

\* ------------------------------------------- load_chunks on a longer read
\* the collapse alphabet of a canonical mapped signal file
CanonicalAlphabet == <<"A", "C", "G", "T">>

\* a read of ten bases, ACGTACGTAC, every base of dwell samples
TenBaseRead(dwell) ==
    from_taiyaki_read(<<0, 1, 2, 3, 0, 1, 2, 3, 0, 1>>,
                      [i \in 1..10 |-> dwell], 1, CanonicalAlphabet)

\* what is called on the read: a motif search, or a focus offset on a hit,
\* off a hit and past the read
LongReadTargets ==
    {[motif |-> [raw |-> <<"C", "G">>, focus_pos |-> 0],
      full |-> TRUE, focus_offset |-> None],
     [motif |-> [raw |-> <<"C", "G">>, focus_pos |-> 1],
      full |-> TRUE, focus_offset |-> None],
     [motif |-> [raw |-> <<"N">>, focus_pos |-> 0],
      full |-> TRUE, focus_offset |-> None]}
    \cup
    {[motif |-> [raw |-> <<"C", "G">>, focus_pos |-> 0],
      full |-> FALSE, focus_offset |-> Some(o)] : o \in {1, 2, 12}}

LongReadArgs ==
    {[Args(t, None, cc, kc, f, FALSE) EXCEPT !.label_conv = WideLabelConv] :
       t \in LongReadTargets, cc \in {<<1, 1>>, <<5, 5>>, <<6, 4>>},
       kc \in {<<0, 0>>, <<1, 1>>, <<2, 1>>}, f \in BOOLEAN}

InitLongRead ==
    /\ args \in LongReadArgs
    /\ reads \in {<<TenBaseRead(dwell)>> : dwell \in {1, 4, 10}}
    /\ InitChunks
    /\ EncIdle
    /\ LoadIdle
    /\ DatasetIdle

SpecLongRead == InitLongRead /\ [][LoadChunks]_vars

\* ---------------------------------------------------------------- train_model
\* the number of epochs drawn for train_model
MaxEpochs == 2

\* the labels a stored dataset may hold
DatasetLabels == {-1, 0, 1}

\* RemoraDataset.get_label_counts: the mapping from each label value the
\* dataset holds to the number of its rows
get_label_counts(labels) ==
    [l \in {labels[i] : i \in 1..Len(labels)} |->
       Cardinality({i \in 1..Len(labels) : labels[i] = l})]

\* a check that only refuses a dataset with no label at all
too_few_labels_none_only(label_counts) ==
    Cardinality(DOMAIN label_counts) < 1

\* len(label_counts) <= 1
too_few_labels(label_counts) == Cardinality(DOMAIN label_counts) <= 1

\* RemoraDataset.split_data: the rows are shuffled once and partitioned at
\* floor(N * val_prop) into the validation rows and the training rows, with
\* a train-as-validation subset of the validation set's size taken from the
\* training rows
split_data(labels, vp, shuf_idx) ==
    LET ls == TakeIdx(labels, shuf_idx)
        val_idx == val_idx_of(Len(ls), vp)
    IN  [trn_ds |-> PySlice(ls, val_idx, Len(ls)),
         val_trn_ds |-> PySlice(ls, val_idx, val_idx + val_idx),
         val_ds |-> PySlice(ls, 0, val_idx)]

\* RemoraDataset.split_data fails: val_prop > 0 and fewer than 2 / val_prop
\* rows
split_data_fails(labels, vp) ==
    vp[1] > 0 /\ Len(labels) * vp[1] < 2 * vp[2]

\* the steps of one epoch: one training step per batch of trn_ds, then the
\* validation on val_ds and on val_trn_ds
epoch_steps(trn, batch_size) ==
    [i \in 1..n_batches_of(Len(trn), batch_size, FALSE) |-> "train"]
        \o <<"validate_model val", "validate_model trn">>

\* train_model up to the label check: the dataset is loaded, the model and
\* the optimizer are set up
InitTrain ==
    /\ \E epochs \in 1..MaxEpochs, batch_size \in 1..MaxBatchSize :
          args = [epochs |-> epochs, batch_size |-> batch_size]
    /\ \E n \in 1..MaxChunks :
          ds \in {Some([labels |-> ls]) : ls \in SeqsOfLen(DatasetLabels, n)}
    /\ val_prop \in {Some(vp) : vp \in ValProps}
    /\ pc = "train_model"
    /\ reads = <<>>
    /\ ri = 0
    /\ motif_pos = <<>>
    /\ mi = 1
    /\ chunks = <<>>
    /\ reject_reasons = [r \in Reasons |-> 0]
    /\ last = [op |-> "load_from_file"]
    /\ batches = <<>>
    /\ trn_set = None /\ dl_trn = None /\ dl_val = None /\ dl_val_trn = None
    /\ EncIdle

\* one or fewer labels: RemoraError
TrainTooFewLabels ==
    /\ pc = "train_model"
    /\ too_few_labels(get_label_counts(Get(ds).labels))
    /\ pc' = "One or fewer output labels found"
    /\ last' = [op |-> "train_model raises"]
    /\ UNCHANGED <<args, reads, chunks, loopvars, encvars, ldvars, dsvars>>

\* dataset.split_data(val_prop) fails
TrainSplitFails ==
    /\ pc = "train_model"
    /\ ~too_few_labels(get_label_counts(Get(ds).labels))
    /\ split_data_fails(Get(ds).labels, Get(val_prop))
    /\ pc' = "split_data raises"
    /\ last' = [op |-> "train_model raises"]
    /\ UNCHANGED <<args, reads, chunks, loopvars, encvars, ldvars, dsvars>>

\* dataset.split_data(val_prop)
TrainSplit ==
    /\ pc = "train_model"
    /\ ~too_few_labels(get_label_counts(Get(ds).labels))
    /\ ~split_data_fails(Get(ds).labels, Get(val_prop))
    /\ \E shuf_idx \in Perms(Len(Get(ds).labels)) :
          LET r == split_data(Get(ds).labels, Get(val_prop), shuf_idx)
          IN  /\ ds' = Some([labels |-> TakeIdx(Get(ds).labels, shuf_idx)])
              /\ trn_set' = Some(r.trn_ds)
              /\ dl_trn' = Some(r.trn_ds)
              /\ dl_val_trn' = Some(r.val_trn_ds)
              /\ dl_val' = Some(r.val_ds)
    /\ pc' = "split"
    /\ last' = [op |-> "split_data"]
    /\ UNCHANGED <<args, reads, chunks, loopvars, encvars, val_prop, batches>>

\* the initial validation, on val_ds and on val_trn_ds
TrainInitialValidation ==
    /\ pc = "split"
    /\ batches' = <<"validate_model val", "validate_model trn">>
    /\ pc' = "epochs"
    /\ last' = [op |-> "validate_model"]
    /\ UNCHANGED <<args, reads, chunks, loopvars, encvars, ldvars, ds>>

\* one epoch of the training loop
TrainEpoch ==
    /\ pc = "epochs"
    /\ ri < args.epochs
    /\ batches' = batches \o epoch_steps(Get(dl_trn), args.batch_size)
    /\ ri' = ri + 1
    /\ last' = [op |-> "epoch"]
    /\ UNCHANGED <<args, reads, pc, chunks, motif_pos, mi, reject_reasons,
                   encvars, ldvars, ds>>

\* the epochs are over: the final checkpoint is saved
TrainComplete ==
    /\ pc = "epochs"
    /\ ri >= args.epochs
    /\ pc' = "Training complete"
    /\ last' = [op |-> "save"]
    /\ UNCHANGED <<args, reads, chunks, loopvars, encvars, ldvars, dsvars>>

NextTrain ==
    \/ TrainTooFewLabels
    \/ TrainSplitFails
    \/ TrainSplit
    \/ TrainInitialValidation
    \/ TrainEpoch
    \/ TrainComplete

SpecTrain == InitTrain /\ [][NextTrain]_vars

\* ------------------------------------------------------------------ claims
\* the read a chunk was taken from
ReadOf(c) == reads[c.read_id]

\* the read's sequence window of a chunk, from its provenance
SeqStartOf(c) == c.read_seq_pos - c.seq_focus_pos
SeqEndOf(c) == SeqStartOf(c) + Len(c.sequence)

ChunkSet == {chunks[i] : i \in 1..Len(chunks)}

\* C1: load_chunks never returns more chunks than num_chunks, also when the
\* cap is reached while reads remain to be processed.
C1_AtMostNumChunks ==
    (pc = "returned" /\ ~IsNone(args.num_chunks))
        => Len(chunks) <= Get(args.num_chunks)

\* C2: every chunk of load_chunks, in both window modes, has
\* len(sequence) = len(seq_to_sig_map) - 1, seq_to_sig_map[0] = 0 and
\* seq_to_sig_map[-1] = len(signal).
C2_ChunkMapInvariant ==
    \A c \in ChunkSet :
        /\ Len(c.sequence) = Len(c.seq_to_sig_map) - 1
        /\ c.seq_to_sig_map[1] = 0
        /\ c.seq_to_sig_map[Len(c.seq_to_sig_map)] = Len(c.signal)

\* C2 witness: a returned chunk of several bases whose window starts inside
\* a base (the sub-map's first entry was moved to the window edge)
C2_Witness ==
    /\ pc = "returned"
    /\ \E c \in ChunkSet :
          /\ Len(c.sequence) >= 2
          /\ c.signal[1] > ReadOf(c).seq_to_sig_map[SeqStartOf(c) + 1]

\* C3: a chunk exists only with both contexts of exactly their lengths, read
\* from inside the read; a position whose context the start or the end of
\* the read truncates yields no chunk and is counted under the context
\* reason.
C3_ExactContextOrRejected ==
    /\ \A c \in ChunkSet :
          /\ Len(c.before_context_seq) = args.kmer_context_bases[1]
          /\ Len(c.after_context_seq) = args.kmer_context_bases[2]
          /\ SeqStartOf(c) - args.kmer_context_bases[1] >= 0
          /\ SeqEndOf(c) + args.kmer_context_bases[2] <= Len(ReadOf(c).seq)
    /\ (last.op = "reject" /\ last.reason = "Invalid context seq extracted")
          => /\ reject_reasons["Invalid context seq extracted"] >= 1
             /\ ~\E c \in ChunkSet :
                    c.read_id = ri /\ c.read_seq_pos = last.m_pos

\* C3 witness: a position was rejected for its truncated context after a
\* chunk was accepted
C3_Witness ==
    /\ last.op = "reject" /\ last.reason = "Invalid context seq extracted"
    /\ Len(chunks) >= 1
    /\ args.kmer_context_bases = <<1, 1>>

\* a chunk was masked after a read of its tensor and its tensor read again,
\* and its seq_focus_pos indexes its sequence
MaskedAndReread ==
    /\ ~IsNone(before) /\ ~IsNone(Get(before).tensor) /\ ~IsNone(tensor)
    /\ Get(before).chunk.seq_focus_pos >= 0
    /\ Get(before).chunk.seq_focus_pos < Len(Get(before).chunk.sequence)

\* the tensors read before and after the masking agree in every column
\* (0-based) outside [lo, hi)
SameOutside(lo, hi) ==
    LET t0 == Get(Get(before).tensor)
        t1 == Get(tensor)
    IN  /\ Len(t0) = Len(t1)
        /\ \A j \in 0..(Len(t0) - 1) :
              (j < lo \/ j >= hi) => t0[j + 1] = t1[j + 1]

\* C4 as stated: masking the focus base and re-encoding changes only the
\* columns of the focus base's own signal span, for every k-mer context.
C4_OnlyFocusSpanChanges ==
    MaskedAndReread =>
        LET c == Get(before).chunk
            f == c.seq_focus_pos
        IN  IF c.sequence[f + 1] = "N"
            THEN Get(tensor) = Get(Get(before).tensor)
            ELSE SameOutside(c.seq_to_sig_map[f + 1], c.seq_to_sig_map[f + 2])

\* C4 amended: masking the focus base f and re-encoding changes only columns
\* of the signal spans of the bases f - kmer_after_bases .. f +
\* kmer_before_bases (the bases whose k-mer holds the focus base), and
\* nothing if the focus base was N already.
C4_OnlyKmerSpansChange ==
    MaskedAndReread =>
        LET c == Get(before).chunk
            f == c.seq_focus_pos
            lo == Max(0, f - Len(c.after_context_seq))
            hi == Min(Len(c.sequence), f + Len(c.before_context_seq) + 1)
        IN  IF c.sequence[f + 1] = "N"
            THEN Get(tensor) = Get(Get(before).tensor)
            ELSE SameOutside(c.seq_to_sig_map[lo + 1], c.seq_to_sig_map[hi + 1])

\* C4 witness: a masking changed a column outside the focus base's own
\* span (a neighbour's k-mer holds the focus base)
C4_Witness ==
    /\ MaskedAndReread
    /\ LET c == Get(before).chunk
       IN  /\ c.sequence[c.seq_focus_pos + 1] # "N"
           /\ ~SameOutside(c.seq_to_sig_map[c.seq_focus_pos + 1],
                           c.seq_to_sig_map[c.seq_focus_pos + 2])

\* the (signal, feature, label, metadata) rows of a list of chunks, as a
\* RemoraDataset holds them
ChunkRows(cs, return_read_data) ==
    [i \in 1..Len(cs) |->
       <<cs[i].signal, seq_nn_input(cs[i]).val, cs[i].label,
         IF return_read_data
         THEN Some(<<cs[i].read_id, cs[i].read_seq_pos>>) ELSE None>>]

\* the rows a RemoraDataset holds, in buffer order
DatasetRows(d) ==
    [i \in 1..d.dataset_len |->
       <<d.sig_tensor[i], d.seq_tensor[i], d.labels[i],
         IF d.return_read_data THEN Some(Get(d.read_data)[i]) ELSE None>>]

\* the rows of the batches of the pass so far, concatenated
BatchRows ==
    Flatten([b \in 1..Len(batches) |->
               [i \in 1..Len(batches[b].labels) |->
                  <<batches[b].sigs[i], batches[b].seqs[i],
                    batches[b].labels[i],
                    IF IsNone(batches[b].read_data) THEN None
                    ELSE Some(Get(batches[b].read_data)[i])>>]])

Count(xs, x) == Cardinality({i \in 1..Len(xs) : xs[i] = x})

SameMultiset(xs, ys) ==
    /\ Len(xs) = Len(ys)
    /\ \A i \in 1..Len(xs) : Count(xs, xs[i]) = Count(ys, xs[i])

\* a full pass is over: next(ds) raised StopIteration
PassOver == pc = "dataset" /\ last.op = "StopIteration"

\* C5 as stated: the batches of one full pass, concatenated, are the same
\* multiset of rows as the dataset held, for every batch_size, shuffle and
\* drop_last.
C5_PassYieldsAllRows ==
    PassOver =>
        SameMultiset(BatchRows,
                     ChunkRows(chunks, Get(ds).return_read_data))

\* C5 amended: the batches of one full pass, concatenated, are the first
\* n_batches * batch_size rows of the buffers (after the pass's shuffle),
\* capped at N; they are the same multiset of rows as the dataset held
\* when drop_last is unset or batch_size divides N, and otherwise the last
\* N mod batch_size rows are in no batch.
C5_PassYieldsFullBatches ==
    PassOver =>
        LET d == Get(ds)
            n == d.dataset_len
            yielded == IF d.drop_last
                       THEN n - (n % d.batch_size) ELSE n
        IN  /\ BatchRows = SubSeq(DatasetRows(d), 1, yielded)
            /\ SameMultiset(DatasetRows(d),
                            ChunkRows(chunks, d.return_read_data))
            /\ (~d.drop_last \/ n % d.batch_size = 0)
                  => SameMultiset(BatchRows,
                                  ChunkRows(chunks, d.return_read_data))

\* C5 witness: a shuffled pass without drop_last ended with a last, shorter
\* batch
C5_Witness ==
    /\ PassOver
    /\ Get(ds).shuffle /\ ~Get(ds).drop_last
    /\ Get(ds).dataset_len = 3 /\ Get(ds).batch_size = 2
    /\ Len(batches) = 2
    /\ DatasetRows(Get(ds)) # ChunkRows(chunks, Get(ds).return_read_data)

\* C6: through any number of passes with shuffle set, the signal buffer,
\* the feature buffer, the label vector and the read-metadata list (when
\* kept) all have length N, and one permutation of the chunks gives row i
\* of every one of them; so the multiset of rows is unchanged.
C6_BuffersPermutedJointly ==
    (pc = "dataset" /\ Get(ds).shuffle) =>
        LET d == Get(ds)
            n == Len(chunks)
        IN  /\ d.dataset_len = n
            /\ Len(d.sig_tensor) = n
            /\ Len(d.seq_tensor) = n
            /\ Len(d.labels) = n
            /\ d.return_read_data => Len(Get(d.read_data)) = n
            /\ \E shuf \in Perms(n) :
                  \A i \in 1..n :
                     /\ d.sig_tensor[i] = chunks[shuf[i]].signal
                     /\ d.seq_tensor[i] = seq_nn_input(chunks[shuf[i]]).val
                     /\ d.labels[i] = chunks[shuf[i]].label
                     /\ d.return_read_data =>
                           Get(d.read_data)[i] =
                              <<chunks[shuf[i]].read_id,
                                chunks[shuf[i]].read_seq_pos>>
            /\ SameMultiset(DatasetRows(d),
                            ChunkRows(chunks, d.return_read_data))

\* C6 witness: a pass began on a dataset of three chunks that keeps read
\* metadata, with its rows in another order than the chunks
C6_Witness ==
    /\ pc = "dataset" /\ last.op = "iter"
    /\ Get(ds).shuffle /\ Get(ds).return_read_data
    /\ Len(chunks) = 3
    /\ Get(ds).labels # [i \in 1..3 |-> chunks[i].label]
    /\ Get(ds).sig_tensor # [i \in 1..3 |-> chunks[i].signal]

\* load_datasets was called with val_prop > 0 and is over
SplitCalled ==
    /\ pc \in {"loaded", "ValueError",
               "Too few chunks to extract validation proportion"}
    /\ Get(val_prop)[1] > 0

\* load_datasets returned datasets split with val_prop > 0
SplitDone == pc = "loaded" /\ Get(val_prop)[1] > 0

\* the number of chunks is smaller than 2 / val_prop
BelowTwoOverValProp ==
    Len(chunks) * Get(val_prop)[1] < 2 * Get(val_prop)[2]

\* C7: load_datasets with val_prop > 0 raises the too-few-chunks error
\* exactly when the number of chunks is smaller than 2 / val_prop.
C7_TooFewExactlyBelowBound ==
    SplitCalled =>
        ((pc = "Too few chunks to extract validation proportion")
            <=> BelowTwoOverValProp)

\* the identity of a chunk: its read and its position in the read
ChunkId(c) == <<c.read_id, c.read_seq_pos>>

\* C8 as stated: after a split, dl_val_trn has as many chunks as dl_val and
\* its chunks are chunks of the training partition.
C8_ValTrnSameSizeAsVal ==
    SplitDone =>
        /\ Get(dl_val_trn).dataset_len = Get(dl_val).dataset_len
        /\ DatasetRows(Get(dl_val_trn)) =
              SubSeq(ChunkRows(Get(trn_set), Get(dl_val_trn).return_read_data),
                     1, Get(dl_val_trn).dataset_len)

\* C8 amended: after a split of N chunks at val_idx = floor(N * val_prop),
\* dl_val_trn holds the first min(val_idx, N - val_idx) chunks of the
\* training partition: as many as dl_val when 2 * val_idx <= N, and the
\* whole, smaller training partition otherwise.
C8_ValTrnIsTrainPrefix ==
    SplitDone =>
        LET n == Len(chunks)
            val_idx == Get(dl_val).dataset_len
            d == Get(dl_val_trn)
        IN  /\ d.dataset_len = Min(val_idx, n - val_idx)
            /\ d.dataset_len >= 1
            /\ DatasetRows(d) =
                  SubSeq(ChunkRows(Get(trn_set), d.return_read_data),
                         1, d.dataset_len)
            /\ \A i \in 1..d.dataset_len :
                  d.return_read_data =>
                     /\ Get(d.read_data)[i] = ChunkId(chunks[val_idx + i])
                     /\ \A j \in 1..val_idx :
                           Get(d.read_data)[i] # ChunkId(chunks[j])
            /\ (2 * val_idx <= n) => d.dataset_len = val_idx

\* C8 witness: a split with more validation chunks than training chunks
C8_Witness ==
    /\ SplitDone
    /\ Get(dl_val_trn).return_read_data
    /\ Get(dl_val).dataset_len = 2
    /\ Get(dl_val_trn).dataset_len = 1

\* C9: after a split, the validation chunks are chunks[:val_idx] and the
\* training chunks chunks[val_idx:] of the returned (shuffled) chunks, with
\* val_idx = floor(N * val_prop); no chunk is in both, and together they
\* are the chunks load_chunks extracted.
C9_SplitIsPartition ==
    SplitDone =>
        LET n == Len(chunks)
            vp == Get(val_prop)
            val_idx == (n * vp[1]) \div vp[2]
            rrd == Get(dl_trn).return_read_data
        IN  /\ Get(dl_val).dataset_len = val_idx
            /\ Len(Get(trn_set)) + Get(dl_val).dataset_len = Len(last.extracted)
            /\ Get(dl_trn).dataset_len = Len(Get(trn_set))
            /\ DatasetRows(Get(dl_val)) = ChunkRows(SubSeq(chunks, 1, val_idx), rrd)
            /\ Get(trn_set) = SubSeq(chunks, val_idx + 1, n)
            /\ DatasetRows(Get(dl_trn)) = ChunkRows(Get(trn_set), rrd)
            /\ \A i \in 1..val_idx : \A j \in 1..Len(Get(trn_set)) :
                  ChunkId(chunks[i]) # ChunkId(Get(trn_set)[j])
            /\ SameMultiset(SubSeq(chunks, 1, val_idx) \o Get(trn_set),
                            last.extracted)

\* C9 witness: four chunks were shuffled into another order and split into
\* two validation chunks and two training chunks
C9_Witness ==
    /\ SplitDone
    /\ Len(chunks) = 4
    /\ chunks # last.extracted
    /\ Get(dl_val).dataset_len = 2
    /\ Len(Get(trn_set)) = 2

\* C10: no chunk of label -1 from a read that has an int_seq is in the
\* training set load_datasets returns.
C10_NoExcludedLabelInTraining ==
    pc = "loaded" =>
        /\ \A i \in 1..Len(Get(trn_set)) :
              ~IsNone(ReadOf(Get(trn_set)[i]).int_seq)
                 => Get(trn_set)[i].label # -1
        /\ (\A i \in 1..Len(reads) : ~IsNone(reads[i].int_seq))
              => \A i \in 1..Get(dl_trn).dataset_len :
                    Get(dl_trn).labels[i] # -1

\* the motif matches the read with its focus base at the focus offset
MatchesAtOffset(read) ==
    MotifMatchAt(args.motif, read.seq,
                 Get(args.focus_offset) - args.motif.focus_pos)

\* the reads before read i that the focus offset is in and the motif does
\* not match at
MismatchedBefore(i) ==
    {j \in 1..(i - 1) :
       /\ Get(args.focus_offset) < Len(reads[j].seq)
       /\ ~MatchesAtOffset(reads[j])}

\* C11, the training path: with a focus offset, load_chunks makes a chunk
\* of a read only at the offset and only if the motif matches there, and it
\* counts every read the motif does not match at under the mismatch reason.
C11_TrainingOffsetValidated ==
    (pc \in {"reads", "positions", "returned", "No valid chunks extracted"}
       /\ ~args.full) =>
        /\ \A c \in ChunkSet :
              /\ c.read_seq_pos = Get(args.focus_offset)
              /\ MatchesAtOffset(ReadOf(c))
        /\ reject_reasons["Focus position motif mismatch"] =
              Cardinality(MismatchedBefore(ri))

\* C11: with a focus offset, on the training path and on the inference
\* path, a chunk is made of a read only if the motif matches the read with
\* its focus base at the offset.
C11_OffsetValidated ==
    /\ C11_TrainingOffsetValidated
    /\ (pc = "called" /\ ~IsNone(args.focus_offset)) =>
          \A c \in ChunkSet : MatchesAtOffset(ReadOf(c))

\* the number of outcomes load_chunks has to count for a read: one for each
\* focus position, or one for a read skipped in focus-offset mode
OutcomesOf(read) ==
    IF args.full THEN Len(full_motif_pos(args.motif, read))
    ELSE 1

RECURSIVE SumCounts(_)
SumCounts(S) ==
    IF S = {} THEN 0
    ELSE LET r == CHOOSE x \in S : TRUE
         IN  reject_reasons[r] + SumCounts(S \ {r})

\* the sum of the counts of reject_reasons, success included
CountedOutcomes == SumCounts(Reasons)

\* load_chunks is over: it returned or raised
LoadChunksOver == pc \in {"returned", "No valid chunks extracted"}

\* C12: load_chunks raises 'No valid chunks extracted' exactly when no
\* chunk succeeded over all reads; a rejected focus position leaves the
\* loop running, and (without a cap) every focus position of every read has
\* been processed and counted when load_chunks is over.
C12_OnlyNoChunksIsFatal ==
    /\ LoadChunksOver =>
          /\ ri = Len(reads) + 1
          /\ (pc = "No valid chunks extracted") <=> (Len(chunks) = 0)
          /\ reject_reasons["success"] = Len(chunks)
          /\ IsNone(args.num_chunks) =>
                CountedOutcomes =
                   SumSeq([i \in 1..Len(reads) |-> OutcomesOf(reads[i])])
    /\ last.op = "reject" => pc = "positions" /\ ri <= Len(reads)

\* C12 witness: two reads were processed without a cap, a focus position of
\* the first was rejected for its context and chunks of both were returned
C12_Witness ==
    /\ pc = "returned"
    /\ IsNone(args.num_chunks)
    /\ reject_reasons["Invalid context seq extracted"] >= 1
    /\ \E c, d \in ChunkSet : c.read_id = 1 /\ d.read_id = 2
    /\ \E i \in 1..Len(chunks) :
          \E m \in 0..(chunks[i].read_seq_pos - 1) :
             ~process_pos(args, reads[chunks[i].read_id], m).ok

\* (map[m] + map[m + 1]) // 2 for the focus position m of a chunk
MidpointOf(c) ==
    (ReadOf(c).seq_to_sig_map[c.read_seq_pos + 1]
       + ReadOf(c).seq_to_sig_map[c.read_seq_pos + 2]) \div 2

\* C13: in fixed-signal-length mode a chunk exists only for a focus
\* position whose window [sig_focus_pos - before, sig_focus_pos + after) is
\* inside the read's signal and not empty; its signal is exactly that
\* window of read.sig, so every chunk has before + after samples.
C13_FixedSignalWindow ==
    ~args.fixed_seq_len_chunks =>
        \A c \in ChunkSet :
           LET sig_start == MidpointOf(c) - args.chunk_context[1]
               sig_end == MidpointOf(c) + args.chunk_context[2]
           IN  /\ sig_start >= 0
               /\ sig_end <= Len(ReadOf(c).sig)
               /\ sig_start < sig_end
               /\ c.signal = SubSeq(ReadOf(c).sig, sig_start + 1, sig_end)
               /\ Len(c.signal) =
                     args.chunk_context[1] + args.chunk_context[2]
               /\ c.sig_focus_pos = args.chunk_context[1]

\* C13 witness: in fixed-signal-length mode a window that starts before the
\* signal was rejected and a chunk of two samples from inside the read was
\* returned
C13_Witness ==
    /\ pc = "returned"
    /\ ~args.fixed_seq_len_chunks
    /\ args.chunk_context = <<1, 1>>
    /\ reject_reasons["Invalid signal start"] >= 1
    /\ \E c \in ChunkSet : Len(c.signal) = 2 /\ c.signal[1] > 0

\* C14: in fixed-sequence-length mode the window of focus position m is
\* [m - before, m + after + 1) in bases; a position is rejected for its
\* start exactly when the start is <= 0 and for its end exactly when the
\* start is > 0 and the end is >= len(seq_to_sig_map); a chunk has the
\* signal [map[start], map[end]) and the before + after + 1 bases of the
\* window.
C14_FixedSeqWindow ==
    args.fixed_seq_len_chunks =>
        /\ \A c \in ChunkSet :
              LET seq_start == c.read_seq_pos - args.chunk_context[1]
                  seq_end == c.read_seq_pos + args.chunk_context[2] + 1
                  map == ReadOf(c).seq_to_sig_map
              IN  /\ seq_start > 0
                  /\ seq_end < Len(map)
                  /\ c.signal = SubSeq(ReadOf(c).sig, map[seq_start + 1] + 1,
                                       map[seq_end + 1])
                  /\ \A k \in 1..Len(c.sequence) :
                        \/ c.sequence[k] = ReadOf(c).seq[seq_start + k]
                        \/ /\ args.base_pred
                           /\ k = c.seq_focus_pos + 1
                           /\ c.sequence[k] = "N"
                  /\ Len(c.sequence) =
                        args.chunk_context[1] + args.chunk_context[2] + 1
                  /\ c.seq_focus_pos = args.chunk_context[1]
        /\ last.op = "reject" =>
              LET seq_start == last.m_pos - args.chunk_context[1]
                  seq_end == last.m_pos + args.chunk_context[2] + 1
              IN  /\ (last.reason = "Invalid base start") <=> (seq_start <= 0)
                  /\ (last.reason = "Invalid base end") <=>
                        (seq_start > 0
                           /\ seq_end >= Len(reads[ri].seq_to_sig_map))

\* C14 witness: in fixed-sequence-length mode, with one base of context
\* after the focus, the first position of a read was rejected for its
\* start, a chunk of two bases was made and a later position was rejected
\* for its end
C14_Witness ==
    /\ args.fixed_seq_len_chunks
    /\ args.chunk_context = <<0, 1>>
    /\ last.op = "reject" /\ last.reason = "Invalid base end"
    /\ reject_reasons["Invalid base start"] >= 1
    /\ \E c \in ChunkSet : c.read_id = ri /\ Len(c.sequence) = 2

\* the tensor t (a sequence of columns) has the given numbers of rows and
\* columns
HasShape(t, rows, cols) ==
    /\ Len(t) = cols
    /\ \A j \in 1..Len(t) : Len(t[j]) = rows

\* C15: the feature tensor of every chunk load_chunks appends has exactly
\* 4 * (kmer_before_bases + kmer_after_bases + 1) rows and len(signal)
\* columns.
C15_TensorShape ==
    \A c \in ChunkSet :
       /\ seq_nn_input(c).ok
       /\ compute_seq_nn_input(c).ok
       /\ Len(c.signal) >= 1
       /\ HasShape(seq_nn_input(c).val,
                   4 * (args.kmer_context_bases[1]
                          + args.kmer_context_bases[2] + 1),
                   Len(c.signal))
       /\ HasShape(compute_seq_nn_input(c).val,
                   4 * (args.kmer_context_bases[1]
                          + args.kmer_context_bases[2] + 1),
                   Len(c.signal))

\* C15 witness: a returned chunk with a base of context before it (8 rows)
\* and bases of different signal lengths
C15_Witness ==
    /\ pc = "returned"
    /\ args.kmer_context_bases = <<1, 0>>
    /\ \E c \in ChunkSet :
          /\ Len(c.sequence) >= 2
          /\ Len(c.signal) >= 2
          /\ \E i, j \in 1..Len(c.sequence) :
                base_sig_lens(c)[i] # base_sig_lens(c)[j]

\* the one-hot vector of a symbol, in the order A, C, G, T; N is all zeros
OneHot(b) == [r \in 1..4 |-> IF <<"A", "C", "G", "T">>[r] = b THEN 1 ELSE 0]

\* the tensor t is the reference encoding of the chunk c
IsReferenceEncoding(c, t) ==
    LET K == Len(c.before_context_seq) + Len(c.after_context_seq) + 1
        ctx == c.before_context_seq \o c.sequence \o c.after_context_seq
    IN  /\ Len(t) = c.seq_to_sig_map[Len(c.seq_to_sig_map)]
        /\ \A i \in 0..(Len(c.sequence) - 1) :
              \A sg \in c.seq_to_sig_map[i + 1]..(c.seq_to_sig_map[i + 2] - 1) :
                 \A o \in 0..(K - 1) :
                    SubSeq(t[sg + 1], 4 * o + 1, 4 * o + 4)
                       = OneHot(ctx[i + o + 1])

\* C16: the tensor read from a chunk (whose sequence has one base for each
\* step of its map) is the reference encoding: for base i, every column of
\* the base's signal span and every offset o < K, rows 4o..4o+3 are the
\* one-hot vector of symbol (before + sequence + after)[i + o], N all zeros.
C16_ReferenceEncoding ==
    (pc = "chunk" /\ ~IsNone(tensor)
       /\ Len(Get(chunk).sequence) = Len(Get(chunk).seq_to_sig_map) - 1) =>
        IsReferenceEncoding(Get(chunk), Get(tensor))

\* C16 witness: the tensor was read of a chunk of two bases with a base of
\* context, holding a G or a T and a masked base, over three samples or more
C16_Witness ==
    /\ pc = "chunk" /\ ~IsNone(tensor)
    /\ LET c == Get(chunk)
       IN  /\ Len(c.sequence) = 2 /\ Len(c.seq_to_sig_map) = 3
           /\ Len(c.before_context_seq) + Len(c.after_context_seq) >= 1
           /\ Len(c.signal) >= 3
           /\ \E k \in 1..2 : c.sequence[k] = "N"
           /\ \E k \in 1..2 : c.sequence[k] \in {"G", "T"}

\* the encoding of the chunk's sequence as it is now, computed afresh
FreshEncoding(c) == compute_seq_nn_input([c EXCEPT !._seq_nn_input = None])

\* C17: over any sequence of reads of seq_nn_input and calls of
\* mask_focus_base on a chunk, the tensor a read returns, and the tensor
\* the chunk caches, is the encoding of the chunk's sequence as it is; a
\* read that follows a read with no masking in between returns the same
\* tensor; after a masking that changed the encoding, a read does not
\* return the tensor read before the masking.
C17_CacheFollowsSequence ==
    /\ [](pc = "chunk" =>
            /\ ~IsNone(tensor) =>
                  /\ FreshEncoding(Get(chunk)).ok
                  /\ Get(tensor) = FreshEncoding(Get(chunk)).val
            /\ ~IsNone(Get(chunk)._seq_nn_input) =>
                  /\ FreshEncoding(Get(chunk)).ok
                  /\ Get(Get(chunk)._seq_nn_input) = FreshEncoding(Get(chunk)).val
            /\ (/\ ~IsNone(before) /\ ~IsNone(Get(before).tensor)
                /\ ~IsNone(tensor)
                /\ FreshEncoding(Get(before).chunk) # FreshEncoding(Get(chunk)))
                  => Get(tensor) # Get(Get(before).tensor))
    /\ [][(pc = "chunk" /\ ReadSeqNNInput /\ ~IsNone(tensor))
             => tensor' = tensor]_vars

\* C17 witness: the tensor was read, the focus base was masked (the
\* sequence changed) and the tensor was read again, and it is another
\* tensor
C17_Witness ==
    /\ pc = "chunk"
    /\ ~IsNone(before) /\ ~IsNone(Get(before).tensor) /\ ~IsNone(tensor)
    /\ Get(before).chunk.sequence # Get(chunk).sequence
    /\ Get(tensor) # Get(Get(before).tensor)

\* the input of the example: the read ACGTACGTAC with the map
\* [0, 10, ..., 100], motif CG with focus_pos 0, a search of the whole read,
\* chunk_context (5, 5) in signal coordinates, kmer_context_bases (1, 1)
IsExample ==
    /\ reads = <<TenBaseRead(10)>>
    /\ args.motif = [raw |-> <<"C", "G">>, focus_pos |-> 0]
    /\ args.full
    /\ ~args.fixed_seq_len_chunks
    /\ args.chunk_context = <<5, 5>>
    /\ args.kmer_context_bases = <<1, 1>>

\* C18: on the example, load_chunks finds the focus positions 1 and 5,
\* with sig_focus_pos 15 and 55, and returns exactly two chunks, each of 10
\* samples with a before and an after context of one base.
C18_Example ==
    IsExample =>
        /\ reads[1].seq_to_sig_map = [i \in 1..11 |-> 10 * (i - 1)]
        /\ pc = "positions" =>
              /\ motif_pos = <<1, 5>>
              /\ sig_focus_pos_of(reads[1], 1) = 15
              /\ sig_focus_pos_of(reads[1], 5) = 55
        /\ pc # "No valid chunks extracted"
        /\ last.op # "reject"
        /\ pc = "returned" =>
              /\ Len(chunks) = 2
              /\ chunks[1].read_seq_pos = 1
              /\ chunks[2].read_seq_pos = 5
              /\ chunks[1].signal = [i \in 1..10 |-> 9 + i]
              /\ chunks[2].signal = [i \in 1..10 |-> 49 + i]
              /\ \A i \in 1..2 :
                    /\ chunks[i].signal[1] + chunks[i].sig_focus_pos
                          = IF i = 1 THEN 15 ELSE 55
                    /\ Len(chunks[i].signal) = 10
                    /\ Len(chunks[i].before_context_seq) = 1
                    /\ Len(chunks[i].after_context_seq) = 1
                    /\ chunks[i].sequence = <<"C">>
                    /\ chunks[i].before_context_seq = <<"A">>
                    /\ chunks[i].after_context_seq = <<"G">>

\* C18 witness: load_chunks returned on the example
C18_Witness ==
    /\ IsExample
    /\ pc = "returned"
    /\ Len(chunks) = 2

\* the number of rows of a batch
RowsOf(b) == Len(b.labels)

\* C19: a RemoraDataset of N chunks has n_batches = floor(N / batch_size)
\* with drop_last and ceil(N / batch_size) without; a pass yields exactly
\* n_batches batches, each of batch_size rows, but that without drop_last
\* the last batch holds the rest of the rows; no batch is empty.
C19_BatchCountAndSizes ==
    pc = "dataset" =>
        LET d == Get(ds)
            n == d.dataset_len
            bs == d.batch_size
        IN  /\ n = Len(chunks)
            /\ d.drop_last => d.n_batches * bs <= n /\ n < (d.n_batches + 1) * bs
            /\ ~d.drop_last =>
                  (d.n_batches - 1) * bs < n /\ n <= d.n_batches * bs
            /\ dataset_len_batches(d) = d.n_batches
            /\ Len(batches) <= d.n_batches
            /\ PassOver => Len(batches) = d.n_batches
            /\ \A b \in 1..Len(batches) :
                  /\ RowsOf(batches[b]) >= 1
                  /\ Len(batches[b].sigs) = RowsOf(batches[b])
                  /\ Len(batches[b].seqs) = RowsOf(batches[b])
                  /\ d.return_read_data =>
                        Len(Get(batches[b].read_data)) = RowsOf(batches[b])
                  /\ RowsOf(batches[b]) =
                        IF b = d.n_batches /\ ~d.drop_last
                        THEN n - (d.n_batches - 1) * bs
                        ELSE bs

\* C19 witness: with drop_last a pass over three chunks in batches of two
\* ended after one batch
C19_Witness ==
    /\ PassOver
    /\ Get(ds).drop_last
    /\ Get(ds).dataset_len = 3 /\ Get(ds).batch_size = 2
    /\ Len(batches) = 1
    /\ RowsOf(batches[1]) = 2

\* rows st+1..en of the buffers, capped at their end: the slice [st:en]
RowSlice(d, st, en) ==
    SubSeq(DatasetRows(d), st + 1,
           IF en < d.dataset_len THEN en ELSE d.dataset_len)

\* the rows of batch b of the pass so far
RowsOfBatch(b) ==
    [i \in 1..Len(batches[b].labels) |->
       <<batches[b].sigs[i], batches[b].seqs[i], batches[b].labels[i],
         IF IsNone(batches[b].read_data) THEN None
         ELSE Some(Get(batches[b].read_data)[i])>>]

\* the four buffers of a RemoraDataset
Buffers(d) == <<d.sig_tensor, d.seq_tensor, d.labels, d.read_data>>

\* C20: iteration is restartable and shuffles once per pass. __iter__,
\* wherever the pass before was left, puts _batch_i at 0 (and leaves the
\* buffers alone when shuffle is unset); __next__
\* never reorders the buffers; batch b of a pass is rows
\* (b - 1) * batch_size .. b * batch_size - 1 of the buffers, so successive
\* batches are contiguous, non-overlapping and increasing; and a pass that
\* runs to StopIteration has yielded all n_batches batches.
C20_RestartableContiguous ==
    /\ [](pc = "dataset" /\ ~IsNone(Get(ds)._batch_i) =>
            LET d == Get(ds)
            IN  /\ Get(d._batch_i) = Len(batches)
                /\ \A b \in 1..Len(batches) :
                      RowsOfBatch(b) =
                         RowSlice(d, (b - 1) * d.batch_size,
                                  b * d.batch_size)
                /\ PassOver => Len(batches) = d.n_batches)
    /\ [][(pc = "dataset" /\ last'.op = "iter") =>
            /\ Get(ds')._batch_i = Some(0)
            /\ batches' = <<>>
            /\ ~Get(ds).shuffle => Buffers(Get(ds')) = Buffers(Get(ds))]_vars
    /\ [][(pc = "dataset" /\ last'.op \in {"next", "StopIteration"}) =>
            Buffers(Get(ds')) = Buffers(Get(ds))]_vars

\* C20 witness: a pass of two batches was left after its first batch, and
\* the pass started after it ran to StopIteration with both batches
C20_Witness ==
    /\ PassOver
    /\ last.left_early
    /\ Get(ds).n_batches = 2
    /\ Len(batches) = 2
    /\ Get(ds).shuffle

\* the label values a stored dataset holds
DistinctLabels == {Get(ds).labels[i] : i \in 1..Len(Get(ds).labels)}

\* train_model has split the dataset or run a validation or training step
SplitOrStepRun ==
    \/ ~IsNone(trn_set) \/ ~IsNone(dl_trn)
    \/ ~IsNone(dl_val) \/ ~IsNone(dl_val_trn)
    \/ batches # <<>>
    \/ pc \in {"split", "epochs", "Training complete"}

\* C21: training fails with a fatal error when the dataset holds fewer than
\* two distinct labels, and the check comes before the split and before any
\* training or validation step: from a dataset with fewer than two labels
\* the only step train_model takes is the error, and no split and no step
\* is ever seen with such a dataset; a dataset with two labels or more
\* never gets this error.
C21_DegenerateLabelsFatalFirst ==
    /\ []((pc = "One or fewer output labels found")
             => (Cardinality(DistinctLabels) < 2 /\ ~SplitOrStepRun))
    /\ []((pc # "reads" /\ ~IsNone(ds) /\ SplitOrStepRun)
             => Cardinality(DistinctLabels) >= 2)
    /\ [][(pc = "train_model" /\ Cardinality(DistinctLabels) < 2)
             => pc' = "One or fewer output labels found"]_vars

\* C21 witness: train_model raised on a dataset of three rows that all hold
\* label 1
C21_Witness ==
    /\ pc = "One or fewer output labels found"
    /\ Get(ds).labels = <<1, 1, 1>>
    /\ ~SplitOrStepRun

\* C22: whenever load_datasets with val_prop in (0, 1) passes its size
\* check and builds a validation set, the validation set holds at least two
\* chunks and the training set at least one.
C22_ValAtLeastTwoTrnAtLeastOne ==
    (SplitDone /\ Get(val_prop)[1] < Get(val_prop)[2]) =>
        /\ Get(dl_val).dataset_len >= 2
        /\ Len(Get(trn_set)) >= 1
        /\ Get(dl_trn).dataset_len >= 1

\* the focus of chunk c lies inside its sequence and its signal
FocusInside(c) ==
    /\ 0 <= c.seq_focus_pos /\ c.seq_focus_pos < Len(c.sequence)
    /\ 0 <= c.sig_focus_pos /\ c.sig_focus_pos <= Len(c.signal)

\* the symbol at the focus of chunk c is the read's base at read_seq_pos, or
\* N when base_pred masked it; every other symbol is the read's
FocusSymbolIsReadBase(c) ==
    LET read == ReadOf(c)
    IN  \A i \in 0..(Len(c.sequence) - 1) :
           \/ SeqStartOf(c) + i \in 0..(Len(read.seq) - 1)
              /\ c.sequence[i + 1] = read.seq[SeqStartOf(c) + i + 1]
           \/ args.base_pred /\ i = c.seq_focus_pos /\ c.sequence[i + 1] = "N"

\* C23: for every chunk load_chunks returns, in both window modes and for
\* every non-decreasing seq_to_sig_map (bases without signal included),
\* 0 <= seq_focus_pos < len(sequence), sequence[seq_focus_pos] is the read's
\* base at read_seq_pos (or N after the base_pred masking, which masks that
\* base and no other), and 0 <= sig_focus_pos <= len(signal).
C23_FocusInsideChunk ==
    \A k \in 1..Len(chunks) :
       /\ FocusInside(chunks[k])
       /\ FocusSymbolIsReadBase(chunks[k])
       /\ args.base_pred =>
             chunks[k].sequence[chunks[k].seq_focus_pos + 1] = "N"

\* the counters of whole reads skipped in focus-offset mode
ReadLevelReasons ==
    {"[--focus-offset] past read seq", "Focus position motif mismatch"}

\* this step adds one to exactly one counter of S and leaves all others
BumpedOnce(S) ==
    \E r \in S :
       /\ reject_reasons'[r] = reject_reasons[r] + 1
       /\ \A q \in Reasons \ {r} : reject_reasons'[q] = reject_reasons[q]

\* C24: the accounting of load_chunks is exact. A step that examines a
\* focus position adds one to exactly one counter, 'success' when it
\* appends a chunk and a rejection reason when it does not; a step that
\* skips a read in focus-offset mode adds one to exactly one of the two
\* read-level counters; no other step touches the histogram; 'success' is
\* the number of chunks throughout, so at the end the number returned; and
\* in focus-offset mode the counts add up to the number of reads.
C24_ExactAccounting ==
    /\ [](reject_reasons["success"] = Len(chunks))
    /\ []((LoadChunksOver /\ ~args.full) => CountedOutcomes = Len(reads))
    /\ [][IF pc = "positions" /\ mi <= Len(motif_pos)
          THEN /\ BumpedOnce(Reasons \ ReadLevelReasons)
               /\ IF reject_reasons'["success"] = reject_reasons["success"] + 1
                  THEN Len(chunks') = Len(chunks) + 1
                  ELSE chunks' = chunks
          ELSE IF pc = "reads" /\ pc' = "reads" /\ ri' = ri + 1
          THEN /\ ~args.full
               /\ BumpedOnce(ReadLevelReasons)
               /\ chunks' = chunks
          ELSE reject_reasons' = reject_reasons /\ chunks' = chunks]_vars

\* C24 witness: in focus-offset mode one read was skipped for a motif
\* mismatch, the other gave a chunk, and load_chunks returned
C24_Witness ==
    /\ pc = "returned"
    /\ ~args.full
    /\ Len(reads) = 2
    /\ reject_reasons["Focus position motif mismatch"] = 1
    /\ reject_reasons["success"] = 1
    /\ Len(chunks) = 1

=============================================================================
